---- MODULE Spec2Model ----
(***************************************************************************)
(* Model of SketchbookWidgetContribution                                   *)
(* (arduino-ide-extension/src/browser/widgets/sketchbook/                  *)
(*  sketchbook-widget-contribution.ts).                                    *)
(*                                                                         *)
(* The contribution is single-threaded and event-driven: every handler     *)
(* runs to its next `await` without interruption, and the continuation     *)
(* after an `await` is a separate step that other handlers may precede.    *)
(* Each action below is one such run-to-suspension step.                   *)
(***************************************************************************)
EXTENDS Integers, Sequences, FiniteSets, TLC

(***************************************************************************)
(* Bounds of the model.                                                    *)
(***************************************************************************)
MaxInvocations == 3
MaxTabEvents == 2
MaxOpens == 1
MaxPrefToggles == 1
MaxPrefChanges == 2

(***************************************************************************)
(* Values.                                                                 *)
(***************************************************************************)
Undefined == [tag |-> "undefined"]

FileUri(p) == [scheme |-> "file", path |-> p]

\* A scheme served by a delegating file-system provider.
DelegatingSchemes == {"user-storage"}

\* URI.toString(): scheme, authority separator and path.
UriToString(u) == u.scheme \o "://" \o u.path

\* FileService.toUnderlyingResource: a delegated resource is mapped to the
\* file resource its provider delegates to, any other resource is returned
\* as it is.
ToUnderlyingResource(u) ==
    IF u.scheme \in DelegatingSchemes THEN FileUri(u.path) ELSE u

\* The nodes of the sketchbook tree.
SketchA == [tag |-> "node", id |-> "/sb/a", uri |-> FileUri("/sb/a"),
            sketchDir |-> TRUE, selectable |-> TRUE]
SketchB == [tag |-> "node", id |-> "/sb/b",
            uri |-> [scheme |-> "user-storage", path |-> "/sb/b"],
            sketchDir |-> TRUE, selectable |-> TRUE]
FileA == [tag |-> "node", id |-> "/sb/a/a.ino", uri |-> FileUri("/sb/a/a.ino"),
          sketchDir |-> FALSE, selectable |-> TRUE]
FileB == [tag |-> "node", id |-> "/sb/b/b.ino", uri |-> FileUri("/sb/b/b.ino"),
          sketchDir |-> FALSE, selectable |-> TRUE]
Root == [tag |-> "node", id |-> "/sb", uri |-> FileUri("/sb"),
         sketchDir |-> FALSE, selectable |-> FALSE]

TreeNodes == {Root, SketchA, SketchB, FileA, FileB}

\* SketchbookTree.SketchDirNode.is
IsSketchDirNode(n) == n # Undefined /\ n.tag = "node" /\ n.sketchDir

\* Variant: the check of the node is missing.
IsSelectable_any(n) == TRUE

\* SelectableTreeNode.is
IsSelectable(n) == n # Undefined /\ n.tag = "node" /\ n.selectable

\* model.revealFile(uri): the node of the tree with that URI, if any.
RevealFile(u) ==
    IF \E n \in TreeNodes : n.uri = u
    THEN CHOOSE n \in TreeNodes : n.uri = u
    ELSE Undefined

(***************************************************************************)
(* Commands and menu nodes.                                                *)
(***************************************************************************)
OPEN_NEW_WINDOW == [id |-> "OPEN_NEW_WINDOW.id", label |-> "OPEN_NEW_WINDOW.label"]
REVEAL_IN_FINDER == [id |-> "REVEAL_IN_FINDER.id", label |-> "REVEAL_IN_FINDER.label"]
ToggleCommandId == "arduino-sketchbook-widget:toggle"

SKETCHBOOK__CONTEXT == <<"arduino-sketchbook--context">>
SKETCHBOOK__CONTEXT__MAIN_GROUP == SKETCHBOOK__CONTEXT \o <<"0_main">>

\* new PlaceholderMenuNode(menuPath, label): its id is derived from the menu
\* path alone and it sorts with order '0'.
PlaceholderMenuNode(menuPath, label, by) ==
    [kind |-> "placeholder",
     id |-> menuPath[1] \o "-" \o menuPath[2] \o "-placeholder",
     label |-> label, order |-> "0", by |-> by]

\* The ActionMenuNode the registry builds for a menu action: its id is the
\* command id.
ActionMenuNode(commandId, label, order, by) ==
    [kind |-> "action", id |-> commandId, label |-> label, order |-> order,
     by |-> by]

\* sortString is `order || label`; '0' sorts before every label.
SortRank(n) == IF n.order = "0" THEN 0 ELSE 1

\* CompositeMenuNode.addNode: push, then a stable sort by sortString.
AddNode(children, n) ==
    LET k == Cardinality({i \in 1..Len(children) :
                             SortRank(children[i]) <= SortRank(n)})
    IN  SubSeq(children, 1, k) \o <<n>> \o SubSeq(children, k + 1, Len(children))

\* Variant: the first child is removed whatever its id is.
RemoveNode_first(children, id) ==
    IF children = <<>> THEN children ELSE Tail(children)

\* CompositeMenuNode.removeNode(id): removes the first child with that id.
RemoveNode(children, id) ==
    IF \E i \in 1..Len(children) : children[i].id = id
    THEN LET k == CHOOSE i \in 1..Len(children) :
                     /\ children[i].id = id
                     /\ \A j \in 1..(i - 1) : children[j].id # id
         IN  SubSeq(children, 1, k - 1) \o SubSeq(children, k + 1, Len(children))
    ELSE children

\* Variant: the collection is not disposed (the previous entries stay).
DisposeAll_skipped(children, disposables) == children

\* DisposableCollection.dispose(): pops and runs every disposable, last
\* pushed first; each one unregisters a menu node by id.
RECURSIVE DisposeAll(_, _)
DisposeAll(children, disposables) ==
    IF disposables = <<>> THEN children
    ELSE DisposeAll(RemoveNode(children, disposables[Len(disposables)].id),
                    SubSeq(disposables, 1, Len(disposables) - 1))

\* The expression of isEnabled / isVisible.
IsEnabled(arg) == arg # Undefined /\ arg.hasNode /\ IsSketchDirNode(arg.node)

\* The arguments a command is invoked with.
Args ==
    {Undefined}
    \cup [hasNode : {FALSE}, node : {Undefined}, target : BOOLEAN]
    \cup [hasNode : {TRUE}, node : {Undefined, FileA, SketchA, SketchB},
          target : BOOLEAN]

IsOpenNewWindowEntry(n) ==
    n.by > 0 /\ (n.kind = "placeholder" \/ n.id = OPEN_NEW_WINDOW.id)

OpenNewWindowEntries(children) ==
    {i \in 1..Len(children) : IsOpenNewWindowEntry(children[i])}

(***************************************************************************)
(* The widgets the shell can make current.                                 *)
(***************************************************************************)
Widget(navigatable, resourceUri) ==
    [tag |-> "widget", navigatable |-> navigatable, resourceUri |-> resourceUri]

Widgets ==
    {Undefined,
     Widget(FALSE, Undefined),
     Widget(TRUE, Undefined),
     Widget(TRUE, FileA.uri),
     Widget(TRUE, FileB.uri),
     Widget(TRUE, Root.uri),
     Widget(TRUE, FileUri("/tmp/x.ino"))}

\* Navigatable.is
IsNavigatable(w) == w # Undefined /\ w.navigatable

(***************************************************************************)
(* State.                                                                  *)
(***************************************************************************)
VARIABLES
    commandsRegistered,   \* registerCommands has run
    menusRegistered,      \* registerMenus has run
    connected,            \* init() has connected shell.currentChanged
    menu,                 \* children of SKETCHBOOK__CONTEXT__MAIN_GROUP
    toDisposeBeforeNewContextMenu,  \* the disposables of the collection
    currentSketch,        \* what sketchServiceClient.currentSketch() yields
    currentSketchCalls,   \* number of currentSketch() calls made
    invocations,          \* OPEN_SKETCHBOOK_CONTEXT_MENU.execute calls
    renders,              \* contextMenuRenderer.render calls
    autoReveal,           \* fileNavigatorPreferences['explorer.autoReveal']
    prefToggles,          \* number of changes of that preference
    currentWidget,        \* shell.currentWidget
    tabEvents,            \* number of shell.currentChanged emissions
    selection,            \* selected nodes of the tree model
    lookups,              \* selectWidgetFileNode calls that reached an await
    revealCalls,          \* arguments of model.revealFile calls
    opens,                \* OPEN_NEW_WINDOW.execute calls (the node of each)
    lastQuery,            \* the latest isEnabled / isVisible query and its results
    started,              \* onStart has subscribed to onPreferenceChanged
    prefChanges,          \* number of arduinoPreferences change notifications
    lastPreferenceName,   \* preferenceName of the latest notification
    menuUpdates           \* number of mainMenuManager.update() calls

vars == <<commandsRegistered, menusRegistered, connected, menu,
          toDisposeBeforeNewContextMenu, currentSketch, currentSketchCalls,
          invocations, renders, autoReveal, prefToggles, currentWidget,
          tabEvents, selection, lookups, revealCalls, opens, lastQuery,
          started, prefChanges, lastPreferenceName, menuUpdates>>

lifecycleVars == <<commandsRegistered, menusRegistered, connected>>
menuVars == <<menu, toDisposeBeforeNewContextMenu, currentSketchCalls,
              invocations, renders>>
tabVars == <<currentWidget, tabEvents, selection, lookups, revealCalls>>
prefVars == <<autoReveal, prefToggles>>
arduinoPrefVars == <<started, prefChanges, lastPreferenceName, menuUpdates>>

Init ==
    /\ commandsRegistered = FALSE
    /\ menusRegistered = FALSE
    /\ connected = FALSE
    /\ menu = <<>>
    /\ toDisposeBeforeNewContextMenu = <<>>
    /\ currentSketch \in {Undefined, [uri |-> UriToString(SketchA.uri)]}
    /\ currentSketchCalls = 0
    /\ invocations = <<>>
    /\ renders = <<>>
    /\ autoReveal = TRUE
    /\ prefToggles = 0
    /\ currentWidget = Undefined
    /\ tabEvents = 0
    /\ selection = <<>>
    /\ lookups = <<>>
    /\ revealCalls = <<>>
    /\ opens = <<>>
    /\ lastQuery = Undefined
    /\ started = FALSE
    /\ prefChanges = 0
    /\ lastPreferenceName = ""
    /\ menuUpdates = 0

(***************************************************************************)
(* isEnabled and isVisible of the three commands. The source repeats the   *)
(* same expression in each of the six handlers.                            *)
(***************************************************************************)
OPEN_SKETCHBOOK_CONTEXT_MENU ==
    [id |-> "OPEN_SKETCHBOOK_CONTEXT_MENU.id",
     label |-> "OPEN_SKETCHBOOK_CONTEXT_MENU.label"]

Commands == {OPEN_NEW_WINDOW, REVEAL_IN_FINDER, OPEN_SKETCHBOOK_CONTEXT_MENU}

\* Variant: the command is also disabled for the node of the current sketch.
OpenNewWindow_isEnabled_notCurrent(arg) ==
    /\ arg # Undefined /\ arg.hasNode /\ IsSketchDirNode(arg.node)
    /\ ~(currentSketch # Undefined
          /\ currentSketch.uri = UriToString(arg.node.uri))

OpenNewWindow_isEnabled(arg) ==
    arg # Undefined /\ arg.hasNode /\ IsSketchDirNode(arg.node)

OpenNewWindow_isVisible(arg) ==
    arg # Undefined /\ arg.hasNode /\ IsSketchDirNode(arg.node)

RevealInFinder_isEnabled(arg) ==
    arg # Undefined /\ arg.hasNode /\ IsSketchDirNode(arg.node)

\* Variant: the check of the kind of the node is missing.
RevealInFinder_isVisible_anyNode(arg) == arg # Undefined /\ arg.hasNode

RevealInFinder_isVisible(arg) ==
    arg # Undefined /\ arg.hasNode /\ IsSketchDirNode(arg.node)

OpenContextMenu_isEnabled(arg) ==
    arg # Undefined /\ arg.hasNode /\ IsSketchDirNode(arg.node)

OpenContextMenu_isVisible(arg) ==
    arg # Undefined /\ arg.hasNode /\ IsSketchDirNode(arg.node)

\* The handler the command registry consults for a command.
CommandIsEnabled(cmd, arg) ==
    CASE cmd = OPEN_NEW_WINDOW -> OpenNewWindow_isEnabled(arg)
      [] cmd = REVEAL_IN_FINDER -> RevealInFinder_isEnabled(arg)
      [] cmd = OPEN_SKETCHBOOK_CONTEXT_MENU -> OpenContextMenu_isEnabled(arg)

CommandIsVisible(cmd, arg) ==
    CASE cmd = OPEN_NEW_WINDOW -> OpenNewWindow_isVisible(arg)
      [] cmd = REVEAL_IN_FINDER -> RevealInFinder_isVisible(arg)
      [] cmd = OPEN_SKETCHBOOK_CONTEXT_MENU -> OpenContextMenu_isVisible(arg)

(***************************************************************************)
(* Start-up.                                                               *)
(***************************************************************************)
\* init(): after fileNavigatorPreferences.ready, connect currentChanged.
InitConnect ==
    /\ ~connected
    /\ connected' = TRUE
    /\ UNCHANGED <<commandsRegistered, menusRegistered, currentSketch, opens>>
    /\ UNCHANGED <<lastQuery, arduinoPrefVars>>
    /\ UNCHANGED <<menuVars, tabVars, prefVars>>

RegisterCommands ==
    /\ ~commandsRegistered
    /\ commandsRegistered' = TRUE
    /\ UNCHANGED <<menusRegistered, connected, currentSketch, opens>>
    /\ UNCHANGED <<lastQuery, arduinoPrefVars>>
    /\ UNCHANGED <<menuVars, tabVars, prefVars>>

\* registerMenus: drop the toggle action, add 'reveal in finder' with
\* order '0' to the main group.
RegisterMenus ==
    /\ ~menusRegistered
    /\ menusRegistered' = TRUE
    /\ menu' = AddNode(RemoveNode(menu, ToggleCommandId),
                       ActionMenuNode(REVEAL_IN_FINDER.id,
                                      REVEAL_IN_FINDER.label, "0", 0))
    /\ UNCHANGED <<commandsRegistered, connected, currentSketch, opens,
                   toDisposeBeforeNewContextMenu, currentSketchCalls,
                   invocations, renders>>
    /\ UNCHANGED <<lastQuery, arduinoPrefVars>>
    /\ UNCHANGED <<tabVars, prefVars>>

(***************************************************************************)
(* OPEN_SKETCHBOOK_CONTEXT_MENU.execute                                    *)
(***************************************************************************)
Pending(i) == invocations[i].pc = "awaitCurrentSketch"

\* Variant: the check of the event target is missing.
HasTarget_unchecked(arg) == TRUE

\* `const container = arg.event.target; if (!container) return;`
HasTarget(arg) == arg.target

\* Up to the first await: dispose the collection, read the event target,
\* return if there is none, else call currentSketch() and suspend.
\* `overlapped` records whether another invocation was suspended at some
\* time between the start and the end of this one.
\* The command is executed from the tree widget, hence after start-up, and
\* the command registry runs the handler only if isEnabled(arg) holds.
OpenContextMenu(arg) ==
    /\ commandsRegistered
    /\ menusRegistered
    /\ OpenContextMenu_isEnabled(arg)
    /\ Len(invocations) < MaxInvocations
    /\ menu' = DisposeAll(menu, toDisposeBeforeNewContextMenu)
    /\ toDisposeBeforeNewContextMenu' = <<>>
    /\ LET others == \E j \in 1..Len(invocations) : Pending(j)
           marked == [j \in 1..Len(invocations) |->
                        IF Pending(j)
                        THEN [invocations[j] EXCEPT !.overlapped = TRUE]
                        ELSE invocations[j]]
       IN  IF ~HasTarget(arg)
           THEN /\ invocations' = Append(marked,
                       [arg |-> arg, pc |-> "done", registered |-> "none",
                        overlapped |-> others])
                /\ currentSketchCalls' = currentSketchCalls
           ELSE /\ invocations' = Append(marked,
                       [arg |-> arg, pc |-> "awaitCurrentSketch",
                        registered |-> "none", overlapped |-> others])
                /\ currentSketchCalls' = currentSketchCalls + 1
    /\ UNCHANGED <<lifecycleVars, currentSketch, renders, opens>>
    /\ UNCHANGED <<lastQuery, arduinoPrefVars>>
    /\ UNCHANGED <<tabVars, prefVars>>

\* Variant: the sketch URI is compared with the node id instead of the
\* string form of the node URI.
IsCurrentSketchNode_byId(sketch, node) ==
    sketch # Undefined /\ sketch.uri = node.id

\* The condition on which the placeholder is registered.
IsCurrentSketchNode(sketch, node) ==
    sketch # Undefined /\ sketch.uri = UriToString(node.uri)

\* Variant: the two branches are swapped.
NewWindowNode_swapped(sketch, node, by) ==
    IF ~IsCurrentSketchNode(sketch, node)
    THEN PlaceholderMenuNode(SKETCHBOOK__CONTEXT__MAIN_GROUP,
                             OPEN_NEW_WINDOW.label, by)
    ELSE ActionMenuNode(OPEN_NEW_WINDOW.id, OPEN_NEW_WINDOW.label, "", by)

\* The menu node the invocation registers.
NewWindowNode(sketch, node, by) ==
    IF IsCurrentSketchNode(sketch, node)
    THEN PlaceholderMenuNode(SKETCHBOOK__CONTEXT__MAIN_GROUP,
                             OPEN_NEW_WINDOW.label, by)
    ELSE ActionMenuNode(OPEN_NEW_WINDOW.id, OPEN_NEW_WINDOW.label, "", by)

\* Variant: the menu is rendered before the entry is registered.
RenderedMenu_early(before, after) == before

\* What contextMenuRenderer.render shows: the children of the menu at the
\* time of the call.
RenderedMenu(before, after) == after

\* After currentSketch() resolves: register the placeholder or the action,
\* push its disposable, render the menu.
ContextMenuResume(i) ==
    /\ i \in 1..Len(invocations)
    /\ Pending(i)
    /\ LET inv == invocations[i]
           n == NewWindowNode(currentSketch, inv.arg.node, i)
       IN  /\ menu' = AddNode(menu, n)
           /\ toDisposeBeforeNewContextMenu' =
                  Append(toDisposeBeforeNewContextMenu, [id |-> n.id])
           /\ renders' = Append(renders,
                  [by |-> i, menuPath |-> SKETCHBOOK__CONTEXT,
                   children |-> RenderedMenu(menu, menu'), args |-> inv.arg])
           /\ invocations' = [invocations EXCEPT
                  ![i].pc = "done",
                  ![i].registered = n.kind]
    /\ UNCHANGED <<lifecycleVars, currentSketch, currentSketchCalls, opens>>
    /\ UNCHANGED <<lastQuery, arduinoPrefVars>>
    /\ UNCHANGED <<tabVars, prefVars>>

(***************************************************************************)
(* OPEN_NEW_WINDOW.execute                                                 *)
(***************************************************************************)
OpenNewWindow(arg) ==
    /\ commandsRegistered
    /\ menusRegistered
    /\ OpenNewWindow_isEnabled(arg)
    /\ Len(opens) < MaxOpens
    /\ opens' = Append(opens, [node |-> arg.node, pc |-> "awaitUnderlying",
                               opened |-> Undefined])
    /\ UNCHANGED <<lifecycleVars, currentSketch>>
    /\ UNCHANGED <<lastQuery, arduinoPrefVars>>
    /\ UNCHANGED <<menuVars, tabVars, prefVars>>

\* The resource handed to workspaceService.open.
OpenedResource(node) == ToUnderlyingResource(node.uri)

OpenNewWindowResume(k) ==
    /\ k \in 1..Len(opens)
    /\ opens[k].pc = "awaitUnderlying"
    /\ opens' = [opens EXCEPT ![k].pc = "done",
                              ![k].opened = OpenedResource(opens[k].node)]
    /\ UNCHANGED <<lifecycleVars, currentSketch>>
    /\ UNCHANGED <<lastQuery, arduinoPrefVars>>
    /\ UNCHANGED <<menuVars, tabVars, prefVars>>

(***************************************************************************)
(* onStart and the arduinoPreferences.onPreferenceChanged listener         *)
(***************************************************************************)
\* The names of the preferences whose change is notified.
PreferenceNames ==
    {"arduino.sketchbook.showAllFiles", "arduino.sketchbook.location",
     "arduino.upload.verbose"}

\* onStart(): subscribe the listener.
OnStart ==
    /\ ~started
    /\ started' = TRUE
    /\ UNCHANGED <<prefChanges, lastPreferenceName, menuUpdates>>
    /\ UNCHANGED <<lifecycleVars, currentSketch, opens, lastQuery>>
    /\ UNCHANGED <<menuVars, tabVars, prefVars>>

\* Variant: the listener updates the menu on every change.
ShouldUpdateMenu_always(preferenceName) == TRUE

\* `if (preferenceName === 'arduino.sketchbook.showAllFiles')`
ShouldUpdateMenu(preferenceName) ==
    preferenceName = "arduino.sketchbook.showAllFiles"

\* An arduino preference changes; the listener, if subscribed, calls
\* mainMenuManager.update() for 'arduino.sketchbook.showAllFiles'.
PreferenceChanged(preferenceName) ==
    /\ prefChanges < MaxPrefChanges
    /\ prefChanges' = prefChanges + 1
    /\ lastPreferenceName' = preferenceName
    /\ menuUpdates' = IF started /\ ShouldUpdateMenu(preferenceName)
                      THEN menuUpdates + 1
                      ELSE menuUpdates
    /\ UNCHANGED <<started, lifecycleVars, currentSketch, opens, lastQuery>>
    /\ UNCHANGED <<menuVars, tabVars, prefVars>>

(***************************************************************************)
(* Queries of the command registry                                         *)
(***************************************************************************)
\* The registry (a menu, a toolbar, executeCommand) asks the handlers of a
\* command whether it is enabled and visible for an argument.
QueryCommand(cmd, arg) ==
    /\ commandsRegistered
    /\ lastQuery' = [command |-> cmd.id, arg |-> arg,
                     enabled |-> CommandIsEnabled(cmd, arg),
                     visible |-> CommandIsVisible(cmd, arg)]
    /\ UNCHANGED <<lifecycleVars, currentSketch, opens, arduinoPrefVars>>
    /\ UNCHANGED <<menuVars, tabVars, prefVars>>

(***************************************************************************)
(* Tab change: onCurrentWidgetChangedHandler and selectWidgetFileNode      *)
(***************************************************************************)
\* Variant: the handler ignores the preference.
ShouldReveal_always(pref) == TRUE

\* Whether the handler calls selectWidgetFileNode.
ShouldReveal(pref) == pref

\* Variant: the check of the resource URI is missing.
HasResource_unchecked(w) == IsNavigatable(w)

\* Whether selectWidgetFileNode reaches its first await.
HasResource(w) == IsNavigatable(w) /\ w.resourceUri # Undefined

\* Variant: a new tab change cancels the lookups in flight.
LookupsKept_cancelled(ls) == SelectSeq(ls, LAMBDA l : l.pc = "done")

\* The lookups left in flight when a new one is started.
LookupsKept(ls) == ls

\* shell.currentChanged fires with w as the new current widget.
CurrentChanged(w) ==
    /\ tabEvents < MaxTabEvents
    /\ currentWidget' = w
    /\ tabEvents' = tabEvents + 1
    /\ IF connected /\ ShouldReveal(autoReveal) /\ HasResource(w)
       THEN lookups' = Append(LookupsKept(lookups),
                [event |-> tabEvents + 1, uri |-> w.resourceUri,
                 pc |-> "awaitWidget", node |-> Undefined])
       ELSE lookups' = lookups
    /\ UNCHANGED <<selection, revealCalls>>
    /\ UNCHANGED <<lifecycleVars, currentSketch, opens>>
    /\ UNCHANGED <<lastQuery, arduinoPrefVars>>
    /\ UNCHANGED <<menuVars, prefVars>>

\* `await this.widget` resolves: call model.revealFile(resourceUri).
SelectCallReveal(k) ==
    /\ k \in 1..Len(lookups)
    /\ lookups[k].pc = "awaitWidget"
    /\ revealCalls' = Append(revealCalls, lookups[k].uri)
    /\ lookups' = [lookups EXCEPT ![k].pc = "awaitReveal"]
    /\ UNCHANGED <<currentWidget, tabEvents, selection>>
    /\ UNCHANGED <<lifecycleVars, currentSketch, opens>>
    /\ UNCHANGED <<lastQuery, arduinoPrefVars>>
    /\ UNCHANGED <<menuVars, prefVars>>

\* Variant: the node is added to the selection.
SelectNode_added(sel, node) == Append(sel, node)

\* model.selectNode(node): the selection becomes that single node.
SelectNode(sel, node) == <<node>>

\* revealFile resolves: select the node if it is selectable.
SelectResume(k) ==
    /\ k \in 1..Len(lookups)
    /\ lookups[k].pc = "awaitReveal"
    /\ LET node == RevealFile(lookups[k].uri)
       IN  /\ lookups' = [lookups EXCEPT ![k].pc = "done", ![k].node = node]
           /\ selection' = IF IsSelectable(node)
                           THEN SelectNode(selection, node)
                           ELSE selection
    /\ UNCHANGED <<currentWidget, tabEvents, revealCalls>>
    /\ UNCHANGED <<lifecycleVars, currentSketch, opens>>
    /\ UNCHANGED <<lastQuery, arduinoPrefVars>>
    /\ UNCHANGED <<menuVars, prefVars>>

\* The user changes the 'explorer.autoReveal' preference.
SetAutoReveal(b) ==
    /\ prefToggles < MaxPrefToggles
    /\ b # autoReveal
    /\ autoReveal' = b
    /\ prefToggles' = prefToggles + 1
    /\ UNCHANGED <<lifecycleVars, currentSketch, opens>>
    /\ UNCHANGED <<lastQuery, arduinoPrefVars>>
    /\ UNCHANGED <<menuVars, tabVars>>

(***************************************************************************)
(* Specification.                                                          *)
(***************************************************************************)
\* The context-menu and open-in-new-window handlers.
NextMenu ==
    \/ RegisterCommands
    \/ RegisterMenus
    \/ \E arg \in Args : OpenContextMenu(arg)
    \/ \E i \in 1..MaxInvocations : ContextMenuResume(i)
    \/ \E arg \in Args : OpenNewWindow(arg)
    \/ \E k \in 1..MaxOpens : OpenNewWindowResume(k)

\* The tab-change handler.
NextTab ==
    \/ InitConnect
    \/ \E w \in Widgets : CurrentChanged(w)
    \/ \E k \in 1..MaxTabEvents : SelectCallReveal(k)
    \/ \E k \in 1..MaxTabEvents : SelectResume(k)
    \/ \E b \in BOOLEAN : SetAutoReveal(b)

\* Queries of the command handlers, between context-menu invocations.
NextQuery ==
    \/ RegisterCommands
    \/ RegisterMenus
    \/ \E arg \in Args : OpenContextMenu(arg)
    \/ \E i \in 1..MaxInvocations : ContextMenuResume(i)
    \/ \E cmd \in Commands, arg \in Args : QueryCommand(cmd, arg)

\* The preference listener, between tab changes.
NextPref ==
    \/ InitConnect
    \/ RegisterMenus
    \/ OnStart
    \/ \E name \in PreferenceNames : PreferenceChanged(name)
    \/ \E w \in Widgets : CurrentChanged(w)
    \/ \E k \in 1..MaxTabEvents : SelectCallReveal(k)
    \/ \E k \in 1..MaxTabEvents : SelectResume(k)

Next == NextMenu \/ NextTab \/ NextQuery \/ NextPref

\* The whole contribution.
Spec == Init /\ [][Next]_vars

\* The two groups of handlers share no state (each leaves the variables of
\* the other unchanged), so each is also checked on its own, with the other
\* group idle.
SpecMenu == Init /\ [][NextMenu]_vars
SpecTab == Init /\ [][NextTab]_vars
SpecQuery == Init /\ [][NextQuery]_vars
SpecPref == Init /\ [][NextPref]_vars

(***************************************************************************)
(* Properties.                                                             *)
(***************************************************************************)
Last(q) == q[Len(q)]

\* The number of 'open in new window' entries in the main group.
NewWindowCount(children) == Cardinality(OpenNewWindowEntries(children))

\* The entries of the main group registered by invocation i.
EntriesBy(children, i) == {k \in 1..Len(children) : children[k].by = i}

\* The render calls made by invocation i.
RendersIn(rs, i) == {r \in 1..Len(rs) : rs[r].by = i}
RendersBy(i) == RendersIn(renders, i)

\* A step that starts a context-menu invocation.
IsInvocationStart == Len(invocations') = Len(invocations) + 1

\* A step that is a shell.currentChanged emission.
IsTabChange == tabEvents' = tabEvents + 1

\* C1: in every reachable state at most one 'open in new window' entry
\* (placeholder or live action) is registered in the main group of the
\* sketchbook context menu.
C1_AtMostOneEntry == NewWindowCount(menu) <= 1

\* C2: when the two latest invocations both had an anchor, the second started
\* after the first had completed, and no other invocation was suspended
\* meanwhile, then once the second has completed exactly one 'open in new
\* window' entry is registered, it is the one of the second invocation, and
\* no entry of the first invocation is left.
C2_TwoInSuccession ==
    \A i \in 1..(Len(invocations) - 1) :
        ( /\ i + 1 = Len(invocations)
          /\ HasTarget(invocations[i].arg) /\ HasTarget(invocations[i + 1].arg)
          /\ invocations[i].pc = "done" /\ invocations[i + 1].pc = "done"
          /\ ~invocations[i].overlapped /\ ~invocations[i + 1].overlapped )
        => /\ NewWindowCount(menu) = 1
           /\ OpenNewWindowEntries(menu) = EntriesBy(menu, i + 1)
           /\ EntriesBy(menu, i) = {}

C2_Witness ==
    /\ Len(invocations) = 2
    /\ \A i \in 1..2 : /\ HasTarget(invocations[i].arg)
                       /\ invocations[i].pc = "done"
                       /\ ~invocations[i].overlapped
    /\ invocations[1].registered = "placeholder"
    /\ invocations[2].registered = "action"
    /\ NewWindowCount(menu) = 1

\* C3: while an invocation is between its disposal and its registration, the
\* only step that can be taken is that invocation's own registration: no
\* other context-menu invocation starts or resumes and no tab-change handler
\* runs.
C3_SameEventTurn ==
    [][\A i \in 1..Len(invocations) :
          Pending(i) =>
             \/ invocations'[i].pc = "done"
             \/ /\ invocations' = invocations
                /\ tabEvents' = tabEvents
                /\ lookups' = lookups]_vars

\* C4: an invocation with an anchor on a node whose URI, as a string, equals
\* the URI of the current sketch registers a placeholder and never a live
\* action: the entry it leaves in the menu and the entry in the menu it
\* renders are placeholders.
C4_CurrentSketchPlaceholder ==
    \A i \in 1..Len(invocations) :
        ( /\ invocations[i].pc = "done"
          /\ HasTarget(invocations[i].arg)
          /\ currentSketch # Undefined
          /\ currentSketch.uri = UriToString(invocations[i].arg.node.uri) )
        => /\ invocations[i].registered = "placeholder"
           /\ \A k \in EntriesBy(menu, i) : menu[k].kind = "placeholder"
           /\ \A r \in RendersBy(i) :
                 \E k \in EntriesBy(renders[r].children, i) :
                     /\ renders[r].children[k].kind = "placeholder"
                     /\ renders[r].children[k].id # OPEN_NEW_WINDOW.id

C4_Witness ==
    \E i \in 1..Len(invocations) :
        /\ invocations[i].pc = "done"
        /\ invocations[i].arg.node = SketchA
        /\ currentSketch # Undefined
        /\ currentSketch.uri = "file:///sb/a"
        /\ EntriesBy(menu, i) # {}
        /\ RendersBy(i) # {}

\* C5: an invocation with an anchor on a node whose URI differs from the
\* current sketch's (or when there is no current sketch) registers a live
\* action bound to the open-in-new-window command, and every completed
\* execution of that command has called workspaceService.open with the
\* underlying resource of the URI of its node.
C5_OtherNodeLiveAction ==
    /\ \A i \in 1..Len(invocations) :
          ( /\ invocations[i].pc = "done"
            /\ HasTarget(invocations[i].arg)
            /\ \/ currentSketch = Undefined
               \/ currentSketch.uri # UriToString(invocations[i].arg.node.uri) )
          => /\ invocations[i].registered = "action"
             /\ \A k \in EntriesBy(menu, i) :
                   menu[k].kind = "action" /\ menu[k].id = OPEN_NEW_WINDOW.id
             /\ \A r \in RendersBy(i) :
                   \E k \in EntriesBy(renders[r].children, i) :
                       /\ renders[r].children[k].kind = "action"
                       /\ renders[r].children[k].id = OPEN_NEW_WINDOW.id
    /\ \A k \in 1..Len(opens) :
          opens[k].pc = "done" =>
             opens[k].opened =
                IF opens[k].node.uri.scheme = "file"
                THEN opens[k].node.uri
                ELSE FileUri(opens[k].node.uri.path)

C5_Witness ==
    /\ \E i \in 1..Len(invocations) :
          /\ invocations[i].pc = "done"
          /\ invocations[i].arg.node = SketchB
          /\ HasTarget(invocations[i].arg)
          /\ EntriesBy(menu, i) # {}
    /\ \E k \in 1..Len(opens) :
          /\ opens[k].pc = "done"
          /\ opens[k].node = SketchB
          /\ opens[k].opened = FileUri("/sb/b")

\* C6: an invocation without an anchor returns at once: it renders no menu,
\* registers no entry, makes no current-sketch lookup and is not left
\* suspended; the entries in the collection have been disposed, so no 'open
\* in new window' entry is registered when it returns.
C6_NoAnchorAborts ==
    [][(IsInvocationStart /\ ~Last(invocations').arg.target) =>
          /\ renders' = renders
          /\ currentSketchCalls' = currentSketchCalls
          /\ Last(invocations').pc = "done"
          /\ Last(invocations').registered = "none"
          /\ EntriesBy(menu', Len(invocations')) = {}
          /\ toDisposeBeforeNewContextMenu' = <<>>
          /\ NewWindowCount(menu') = 0]_vars

C6_Witness ==
    /\ Len(invocations) = 2
    /\ invocations[1].pc = "done"
    /\ invocations[1].registered = "action"
    /\ ~invocations[2].arg.target
    /\ invocations[2].pc = "done"
    /\ Len(renders) = 1
    /\ currentSketchCalls = 1
    /\ NewWindowCount(menu) = 0

\* C7: the first step of an invocation with an anchor disposes every entry
\* of the collection and registers and renders nothing; its second step
\* registers exactly one entry, placeholder or live action, and then renders
\* the menu exactly once, the rendered menu holding that entry.
C7_DisposeRegisterRender ==
    [][/\ (IsInvocationStart /\ Last(invocations').arg.target) =>
             /\ NewWindowCount(menu') = 0
             /\ toDisposeBeforeNewContextMenu' = <<>>
             /\ EntriesBy(menu', Len(invocations')) = {}
             /\ renders' = renders
       /\ \A i \in 1..Len(invocations) :
             (Pending(i) /\ ~Pending(i)') =>
                /\ EntriesBy(menu, i) = {} /\ RendersBy(i) = {}
                /\ Cardinality(EntriesBy(menu', i)) = 1
                /\ NewWindowCount(menu') = NewWindowCount(menu) + 1
                /\ \A k \in EntriesBy(menu', i) :
                      menu'[k].kind \in {"placeholder", "action"}
                /\ Len(toDisposeBeforeNewContextMenu') =
                      Len(toDisposeBeforeNewContextMenu) + 1
                /\ Len(renders') = Len(renders) + 1
                /\ Last(renders').by = i
                /\ Cardinality(EntriesBy(Last(renders').children, i)) = 1
                /\ Last(renders').children = menu'
       /\ \A i \in 1..Len(invocations) :
             (invocations[i].pc = "done") =>
                /\ invocations'[i].pc = "done"
                /\ RendersIn(renders', i) = RendersBy(i)
                /\ Cardinality(RendersBy(i)) =
                      IF HasTarget(invocations[i].arg) THEN 1 ELSE 0]_vars

C7_Witness ==
    /\ Len(invocations) = 2
    /\ invocations[1].pc = "done" /\ invocations[2].pc = "done"
    /\ ~invocations[2].overlapped
    /\ Len(renders) = 2
    /\ renders[2].by = 2
    /\ NewWindowCount(renders[2].children) = 1

\* C8: a tab change that occurs while 'explorer.autoReveal' is disabled
\* starts no reveal lookup and leaves the selection as it was, whatever the
\* current widget is.
C8_AutoRevealDisabled ==
    [][(IsTabChange /\ ~autoReveal) =>
          /\ selection' = selection
          /\ lookups' = lookups
          /\ revealCalls' = revealCalls]_vars

\* The handler is connected and a lookup of FileA was made while the
\* preference was enabled; the preference was then disabled and the tab of
\* FileB made current: no second lookup exists and FileA stays selected.
C8_Witness ==
    /\ connected /\ ~autoReveal /\ prefToggles = 1
    /\ tabEvents = 2
    /\ currentWidget = Widget(TRUE, FileB.uri)
    /\ Len(lookups) = 1 /\ lookups[1].pc = "done"
    /\ selection = <<FileA>>

\* C9: a tab change whose current widget is undefined, is not navigatable or
\* has no resource URI starts no lookup, calls revealFile for no URI and
\* leaves the selection as it was, also when auto-reveal is enabled; and
\* revealFile is only ever called with the resource URI of a widget.
C9_NoResourceUri ==
    [][/\ (IsTabChange /\ ( \/ currentWidget' = Undefined
                            \/ ~currentWidget'.navigatable
                            \/ currentWidget'.resourceUri = Undefined )) =>
             /\ selection' = selection
             /\ lookups' = lookups
             /\ revealCalls' = revealCalls
       /\ \A k \in 1..Len(revealCalls') : revealCalls'[k] # Undefined]_vars

C9_Witness ==
    /\ connected /\ autoReveal /\ prefToggles = 0
    /\ tabEvents = 2
    /\ currentWidget = Widget(TRUE, Undefined)
    /\ Len(lookups) = 1 /\ lookups[1].pc = "done"
    /\ Len(revealCalls) = 1
    /\ selection = <<FileA>>

\* C10: a tab change cancels no lookup in flight (every lookup stays as it
\* was across a tab change and none is ever dropped), and a lookup that
\* completes with a selectable node selects that node whether or not its
\* widget is still the current one.
C10_NoCancellation ==
    [][/\ Len(lookups') >= Len(lookups)
       /\ \A k \in 1..Len(lookups) :
             /\ lookups'[k].event = lookups[k].event
             /\ lookups'[k].uri = lookups[k].uri
             /\ IsTabChange => lookups'[k] = lookups[k]
             /\ (lookups[k].pc = "awaitReveal" /\ lookups'[k].pc = "done"
                 /\ IsSelectable(lookups'[k].node)) =>
                    /\ lookups'[k].node.uri = lookups[k].uri
                    /\ selection' = <<lookups'[k].node>>]_vars

\* The stale selection: the tab of FileA, then the tab of FileB became
\* current, both lookups have completed, the lookup of FileA last, and the
\* selected node is FileA although the current tab is the one of FileB.
C10_Witness ==
    /\ Len(lookups) = 2
    /\ lookups[1].pc = "done" /\ lookups[2].pc = "done"
    /\ lookups[1].event < lookups[2].event
    /\ lookups[1].node = FileA /\ lookups[2].node = FileB
    /\ revealCalls = <<FileA.uri, FileB.uri>>
    /\ currentWidget = Widget(TRUE, FileB.uri)
    /\ selection = <<FileA>>

\* C11: for each of the three commands isEnabled and isVisible return the
\* same value, and that value is true exactly if the argument is defined,
\* carries a node and the node is a sketch-directory node; this holds of the
\* latest query in every state, whatever queries and context-menu
\* invocations came before it.
C11_EnablementPredicate ==
    lastQuery # Undefined =>
       /\ lastQuery.enabled = lastQuery.visible
       /\ lastQuery.enabled =
             ( /\ lastQuery.arg # Undefined
               /\ lastQuery.arg.hasNode
               /\ lastQuery.arg.node # Undefined
               /\ lastQuery.arg.node.sketchDir )

C11_Witness ==
    /\ lastQuery # Undefined
    /\ lastQuery.command = REVEAL_IN_FINDER.id
    /\ lastQuery.arg # Undefined
    /\ lastQuery.arg.hasNode /\ lastQuery.arg.node = FileA
    /\ ~lastQuery.enabled
    /\ Len(invocations) = 2
    /\ invocations[1].pc = "done" /\ invocations[2].pc = "done"

\* A step in which lookup k completes (model.revealFile has resolved).
Completes(k) == lookups[k].pc = "awaitReveal" /\ lookups'[k].pc = "done"

\* The selectable nodes of the tree with URI u.
SelectableAt(u) == {n \in TreeNodes : n.uri = u /\ n.selectable}

\* C12: every lookup was started by a tab change for the resource URI of a
\* widget; when a lookup for a URI at which the tree has a selectable node
\* completes, that node becomes the selected node, and the selection holds
\* that node alone (it never holds more than one node).
C12_RevealSelectsNode ==
    [][/\ \A k \in 1..Len(lookups) :
             (Completes(k) /\ SelectableAt(lookups[k].uri) # {}) =>
                /\ Len(selection') = 1
                /\ selection'[1] \in SelectableAt(lookups[k].uri)
                /\ lookups'[k].node = selection'[1]
       /\ Len(selection') <= 1
       /\ \A k \in 1..Len(lookups') :
             /\ lookups'[k].event \in 1..tabEvents'
             /\ lookups'[k].uri # Undefined]_vars

C12_Witness ==
    /\ tabEvents = 1
    /\ currentWidget = Widget(TRUE, FileB.uri)
    /\ Len(lookups) = 1
    /\ lookups[1].pc = "done"
    /\ lookups[1].node = FileB
    /\ selection = <<FileB>>

\* C13: when a lookup completes for a URI at which the tree has no node, or
\* only a node that is not selectable, the selection is left as it was and
\* the lookup ends normally.
C13_NoNodeNoChange ==
    [][\A k \in 1..Len(lookups) :
          (Completes(k) /\ SelectableAt(lookups[k].uri) = {}) =>
             /\ selection' = selection
             /\ \A n \in TreeNodes : n.uri = lookups[k].uri =>
                   /\ ~n.selectable
                   /\ selection' # <<n>>]_vars

\* FileA was selected by the first lookup; the second lookup, for a file
\* that is not in the tree, has completed and FileA is still selected.
C13_Witness ==
    /\ Len(lookups) = 2
    /\ lookups[1].pc = "done" /\ lookups[1].node = FileA
    /\ lookups[2].pc = "done" /\ lookups[2].uri = FileUri("/tmp/x.ino")
    /\ lookups[2].node = Undefined
    /\ selection = <<FileA>>

\* The render calls that showed the menu for the node of the current sketch.
RendersForCurrentSketch ==
    {r \in 1..Len(renders) :
        /\ currentSketch # Undefined
        /\ currentSketch.uri = UriToString(renders[r].args.node.uri)}

\* The latest query asked whether 'open in new window' is enabled for the
\* node the menu of render r was shown for.
QueriedForRender(r) ==
    /\ lastQuery # Undefined
    /\ lastQuery.command = OPEN_NEW_WINDOW.id
    /\ lastQuery.arg # Undefined
    /\ lastQuery.arg.hasNode
    /\ lastQuery.arg.node = renders[r].args.node

C15_NoLiveActionForCurrentSketch ==
    \A r \in RendersForCurrentSketch :
        \A k \in 1..Len(renders[r].children) :
            ~( /\ renders[r].children[k].kind = "action"
               /\ renders[r].children[k].id = OPEN_NEW_WINDOW.id )

\* The 'reveal in file system' entries of the main group.
RevealEntries(children) ==
    {k \in 1..Len(children) : children[k].id = REVEAL_IN_FINDER.id}

\* C16: before registerMenus the main group has no 'reveal in file system'
\* entry; in every state after registerMenus it has exactly one, the action
\* registerMenus added with order '0', and no step of the context-menu
\* handler changes that entry.
C16_RevealEntryKept ==
    [][/\ menusRegistered' =>
             /\ Cardinality(RevealEntries(menu')) = 1
             /\ \A k \in RevealEntries(menu') :
                   menu'[k] = [kind |-> "action", id |-> REVEAL_IN_FINDER.id,
                               label |-> REVEAL_IN_FINDER.label,
                               order |-> "0", by |-> 0]
       /\ ~menusRegistered' => RevealEntries(menu') = {}
       /\ invocations' # invocations =>
             Cardinality(RevealEntries(menu')) =
                Cardinality(RevealEntries(menu))]_vars

\* Three invocations have completed, one that registered a placeholder, one
\* that registered a live action and one without an anchor, and the entry
\* is there once.
C16_Witness ==
    /\ menusRegistered
    /\ Len(invocations) = 3
    /\ \A i \in 1..3 : invocations[i].pc = "done"
    /\ {invocations[i].registered : i \in 1..3} =
          {"placeholder", "action", "none"}
    /\ Cardinality(RevealEntries(menu)) = 1

\* A step that is a preference-changed notification.
IsPreferenceChange == prefChanges' = prefChanges + 1

\* C17: a preference-changed notification makes exactly one main-menu
\* update if onStart has run and the preference is
\* 'arduino.sketchbook.showAllFiles', and none otherwise; no notification
\* changes the registrations of the context menu or the tree selection, and
\* no other step updates the main menu.
C17_PreferenceListener ==
    [][/\ IsPreferenceChange =>
             /\ IF started /\ lastPreferenceName' =
                                 "arduino.sketchbook.showAllFiles"
                THEN menuUpdates' = menuUpdates + 1
                ELSE menuUpdates' = menuUpdates
             /\ menu' = menu
             /\ toDisposeBeforeNewContextMenu' = toDisposeBeforeNewContextMenu
             /\ selection' = selection
             /\ lookups' = lookups
       /\ ~IsPreferenceChange => menuUpdates' = menuUpdates]_vars

\* After onStart, 'arduino.sketchbook.showAllFiles' changed and the menu was
\* updated once; then another preference changed without an update, the
\* 'reveal' entry and the selected node staying in place.
C17_Witness ==
    /\ started
    /\ prefChanges = 2
    /\ lastPreferenceName = "arduino.upload.verbose"
    /\ menuUpdates = 1
    /\ menusRegistered /\ Len(menu) = 1
    /\ selection = <<FileA>>

====
